---- MODULE Spec2Model ----
(***************************************************************************)
(* quelpoke: a single-endpoint web server (src/main.go).  A request's name *)
(* is hashed to a Pokemon id (pokemonID), the Pokemon is fetched from the  *)
(* upstream API in up to three sequential requests (fetchPokemon,          *)
(* fetchEvolutions), and the record is rendered into an HTML page (index). *)
(*                                                                         *)
(* Three specifications share this module:                                 *)
(*   SpecHash  pokemonID applied to bounded names and moduli;              *)
(*   SpecFlat  the flattening loop of fetchEvolutions applied to bounded   *)
(*             evolution chains;                                           *)
(*   Spec      the handler index, run by concurrent requests against an    *)
(*             arbitrary upstream.                                         *)
(* A string that the code only compares or passes on is a TLA+ string; a   *)
(* name that is hashed is the sequence of its UTF-8 bytes.                 *)
(***************************************************************************)
EXTENDS Integers, Sequences, FiniteSets, TLC

VARIABLES
  hname, hmod, hres,          \* SpecHash: the arguments and the results of the calls
  fchain, fout, fdone,        \* SpecFlat: the decoded chain and the flattened list
  build,                      \* Spec: what the embedded index.tmpl.html parses to
  pc, query, name, pid,       \* Spec: per request, the locals of index
  calls, resps,               \* Spec: per request, the http.Get calls and their answers
  result, url,                \* Spec: per invocation, fetchPokemon's result and the next URL
  fetchErr, params, rendered, \* Spec: per request, fetchPokemon's error, the page's data
  rw                          \* Spec: per request, the http.ResponseWriter w

hashVars == <<hname, hmod, hres>>
flatVars == <<fchain, fout, fdone>>
mainVars == <<build, pc, query, name, pid, calls, resps, result, url,
              fetchErr, params, rendered, rw>>
vars == <<hashVars, flatVars, mainVars>>

(***************************************************************************)
(* crypto/sha1 and encoding/binary, as pokemonID calls them.  A 32-bit     *)
(* word is a pair <<hi, lo>> of 16-bit halves, so that every intermediate  *)
(* value of the model stays below 2^31.                                    *)
(***************************************************************************)
\* 2^16
Half == 65536

\* Op applied to the value of v.  TLC evaluates the element of {v} once, before
\* it evaluates Op, where it would evaluate an operator's argument at each use.
Eval(v, Op(_)) == CHOOSE y \in {Op(x) : x \in {v}} : TRUE

\* a & b on 4-bit values, bit by bit
And4 ==
  [a \in 0..15 |-> [b \in 0..15 |->
     (a % 2) * (b % 2)
     + 2 * ((a \div 2) % 2) * ((b \div 2) % 2)
     + 4 * ((a \div 4) % 2) * ((b \div 4) % 2)
     + 8 * (a \div 8) * (b \div 8)]]

\* a & b on 16-bit values, four bits at a time
And16(a, b) ==
  And4[a % 16][b % 16]
  + 16 * And4[(a \div 16) % 16][(b \div 16) % 16]
  + 256 * And4[(a \div 256) % 16][(b \div 256) % 16]
  + 4096 * And4[a \div 4096][b \div 4096]

Xor16(a, b) == a + b - 2 * And16(a, b)
Or16(a, b) == a + b - And16(a, b)
Not16(a) == (Half - 1) - a

WAnd(x, y) == <<And16(x[1], y[1]), And16(x[2], y[2])>>
WXor(x, y) == <<Xor16(x[1], y[1]), Xor16(x[2], y[2])>>
WOr(x, y) == <<Or16(x[1], y[1]), Or16(x[2], y[2])>>
WNot(x) == <<Not16(x[1]), Not16(x[2])>>

WAdd(x, y) ==
  LET lo == x[2] + y[2]
      hi == x[1] + y[1] + (lo \div Half)
  IN  <<hi % Half, lo % Half>>

\* a + b + c + d + e on 32-bit words, the carries dropped as uint32 drops them
WAdd5(a, b, c, d, e) ==
  LET lo == a[2] + b[2] + c[2] + d[2] + e[2]
      hi == a[1] + b[1] + c[1] + d[1] + e[1] + (lo \div Half)
  IN  <<hi % Half, lo % Half>>

\* 2^n, 0 <= n <= 16
Pow2(n) ==
  <<1, 2, 4, 8, 16, 32, 64, 128, 256, 512, 1024, 2048, 4096, 8192, 16384, 32768,
    65536>>[n + 1]

\* bits.RotateLeft32(x, n), 0 <= n < 32
RotateLeft32(x, n) ==
  LET y == IF n >= 16 THEN <<x[2], x[1]>> ELSE x
      k == n % 16
      p == Pow2(k)
      q == Pow2(16 - k)
  IN  <<((y[1] * p) % Half) + (y[2] \div q),
        ((y[2] * p) % Half) + (y[1] \div q)>>

WordOf(b1, b2, b3, b4) == <<b1 * 256 + b2, b3 * 256 + b4>>

\* 0x67452301, 0xEFCDAB89, 0x98BADCFE, 0x10325476, 0xC3D2E1F0
h0init == WordOf(103, 69, 35, 1)
h1init == WordOf(239, 205, 171, 137)
h2init == WordOf(152, 186, 220, 254)
h3init == WordOf(16, 50, 84, 118)
h4init == WordOf(195, 210, 225, 240)

\* 0x5A827999, 0x6ED9EBA1, 0x8F1BBCDC, 0xCA62C1D6
K(t) ==
  IF t < 20 THEN WordOf(90, 130, 121, 153)
  ELSE IF t < 40 THEN WordOf(110, 217, 235, 161)
  ELSE IF t < 60 THEN WordOf(143, 27, 188, 220)
  ELSE WordOf(202, 98, 193, 214)

F(t, b, c, d) ==
  IF t < 20 THEN WOr(WAnd(b, c), WAnd(WNot(b), d))
  ELSE IF t < 40 THEN WXor(b, WXor(c, d))
  ELSE IF t < 60 THEN WOr(WOr(WAnd(b, c), WAnd(b, d)), WAnd(c, d))
  ELSE WXor(b, WXor(c, d))

Zeros(k) == [i \in 1..k |-> 0]

\* the 64-bit big-endian bit length; message lengths here stay below 2^13 bytes
LenBytes(n) ==
  LET bits == n * 8
  IN  <<0, 0, 0, 0, 0, (bits \div 65536) % 256, (bits \div 256) % 256, bits % 256>>

\* digest.checkSum padding: 0x80, zeros up to 56 mod 64, then the length
Padded(msg) ==
  LET n == Len(msg)
      r == n % 64
      z == IF r < 56 THEN 55 - r ELSE 119 - r
  IN  msg \o <<128>> \o Zeros(z) \o LenBytes(n)

\* the message schedule: w[t] for t = t .. to (1-based) appended to ws, the
\* words before them.  The range is halved so that the evaluation nests to the
\* logarithm of its length.
RECURSIVE Schedule(_, _, _)
Schedule(ws, t, to) ==
  IF t > to THEN ws
  ELSE IF t = to
  THEN Append(ws, RotateLeft32(WXor(WXor(ws[t - 3], ws[t - 8]),
                                    WXor(ws[t - 14], ws[t - 16])), 1))
  ELSE Eval(Schedule(ws, t, (t + to) \div 2),
            LAMBDA v : Schedule(v, ((t + to) \div 2) + 1, to))

BlockWords(p, off) ==
  LET f == [i \in 1..16 |->
              WordOf(p[off + 4 * i - 3], p[off + 4 * i - 2], p[off + 4 * i - 1],
                     p[off + 4 * i])]
  IN  <<f[1], f[2], f[3], f[4], f[5], f[6], f[7], f[8], f[9], f[10], f[11], f[12],
        f[13], f[14], f[15], f[16]>>

\* one iteration of the 80-round loop of sha1 block()
Round(w, t, s) ==
  <<WAdd5(RotateLeft32(s[1], 5), F(t, s[2], s[3], s[4]), s[5], w[t + 1], K(t)),
    s[1], RotateLeft32(s[2], 30), s[3], s[4]>>

\* rounds t .. to - 1 applied to the working state st, the range halved as in
\* Schedule
RECURSIVE Rounds(_, _, _, _)
Rounds(ws, t, to, st) ==
  IF t >= to THEN st
  ELSE IF to = t + 1 THEN Round(ws, t, st)
  ELSE Eval(Rounds(ws, t, (t + to) \div 2, st),
            LAMBDA v : Rounds(ws, (t + to) \div 2, to, v))

\* sha1 block(): one 64-byte block at offset off folded into the chaining value h
Block(h, p, off) ==
  Eval(Schedule(BlockWords(p, off), 17, 80),
       LAMBDA ws : Eval(Rounds(ws, 0, 80, h),
                        LAMBDA st : <<WAdd(h[1], st[1]), WAdd(h[2], st[2]),
                                      WAdd(h[3], st[3]), WAdd(h[4], st[4]),
                                      WAdd(h[5], st[5])>>))

RECURSIVE Blocks(_, _, _)
Blocks(h, p, off) ==
  IF off >= Len(p) THEN h
  ELSE Eval(Block(h, p, off), LAMBDA v : Blocks(v, p, off + 64))

WordBytes(x) == <<x[1] \div 256, x[1] % 256, x[2] \div 256, x[2] % 256>>

\* the digest of msg: what h.Sum(nil) returns once msg was written to h
Sha1Sum(msg) ==
  Eval(Padded(msg),
       LAMBDA p : Eval(Blocks(<<h0init, h1init, h2init, h3init, h4init>>, p, 0),
                       LAMBDA h : WordBytes(h[1]) \o WordBytes(h[2]) \o WordBytes(h[3])
                                    \o WordBytes(h[4]) \o WordBytes(h[5])))

(***************************************************************************)
(* pokemonID                                                               *)
(***************************************************************************)
\* binary.BigEndian.Uint64(b) % m over the first 8 bytes of b, folded byte by
\* byte: ((v * 256 + b[i]) % m) is the remainder of the 64-bit value itself,
\* which the 8 bytes fill exactly
RECURSIVE Uint64Mod(_, _, _, _)
Uint64Mod(b, i, acc, m) ==
  IF i > 8 THEN acc ELSE Uint64Mod(b, i + 1, (acc * 256 + b[i]) % m, m)

\* h := sha1.New(): a hash with nothing written, new at every call
sha1New == <<>>
\* h.Write(p)
hashWrite(h, p) == h \o p
\* h.Sum(nil)
hashSum(h) == Sha1Sum(h)

pokemonID_NoPlusOne(n, m) ==
  LET h == hashWrite(sha1New, n)
  IN  Eval(hashSum(h), LAMBDA sum : Uint64Mod(sum, 1, 0, m))

\* the result stays below 2^64: it is at most m
pokemonID(n, m) ==
  LET h == hashWrite(sha1New, n)
  IN  Eval(hashSum(h), LAMBDA sum : Uint64Mod(sum, 1, 0, m) + 1)

\* "cafard", "pikachu"
Cafard == <<99, 97, 102, 97, 114, 100>>
Pikachu == <<112, 105, 107, 97, 99, 104, 117>>
\* the modulus index passes
Gen1 == 151

(***************************************************************************)
(* SpecHash: pokemonID called on every name and modulus of the bounds      *)
(***************************************************************************)
MaxNameLen == 2
MaxModulus == 7
MaxCalls == 2
\* 'a', and 0xC3, the lead byte of a two-byte UTF-8 sequence
HashAlphabet == {97, 195}
SeqsUpTo(S, k) == UNION {[1..j -> S] : j \in 0..k}
\* 56 bytes: the padding then spills into a second SHA-1 block
LongName == [i \in 1..56 |-> 97]
HashNames == SeqsUpTo(HashAlphabet, MaxNameLen) \cup {Cafard, Pikachu, LongName}
Moduli == (1..MaxModulus) \cup {Gen1}

HashInit ==
  /\ hname \in HashNames
  /\ hmod \in Moduli
  /\ hres = <<>>

HashIdle ==
  /\ hname = <<>>
  /\ hmod = Gen1
  /\ hres = <<>>

\* one call pokemonID(hname, hmod)
HCall ==
  /\ Len(hres) < MaxCalls
  /\ hres' = Append(hres, pokemonID(hname, hmod))
  /\ UNCHANGED <<hname, hmod>>

HashNext == HCall /\ UNCHANGED <<flatVars, mainVars>>

(***************************************************************************)
(* The flattening loop of fetchEvolutions.  A decoded chain is             *)
(*   [Name, EvolvesTo: Seq([Name, EvolvesTo: Seq([Name])])]                *)
(* (chain.Chain.Species.Name, chain.Chain.EvolvesTo[i].Species.Name, ...); *)
(* the struct has no deeper level.                                         *)
(***************************************************************************)
\* for _, f := range e.EvolvesTo { evols = append(evols, f.Species.Name) }
RECURSIVE appendSecond(_, _, _)
appendSecond(evols, fs, j) ==
  IF j > Len(fs) THEN evols
  ELSE appendSecond(Append(evols, fs[j].Name), fs, j + 1)

\* for _, e := range chain.Chain.EvolvesTo { evols = append(evols, e...); ... }
RECURSIVE appendFirst(_, _, _)
appendFirst(evols, es, i) ==
  IF i > Len(es) THEN evols
  ELSE appendFirst(appendSecond(Append(evols, es[i].Name), es[i].EvolvesTo, 1),
                   es, i + 1)

\* every first-stage name first, the second-stage names after them
RECURSIVE secondOfAll(_, _, _)
secondOfAll(evols, es, i) ==
  IF i > Len(es) THEN evols
  ELSE secondOfAll(appendSecond(evols, es[i].EvolvesTo, 1), es, i + 1)

flatten_BreadthFirst(chain) ==
  secondOfAll(<<chain.Name>> \o [i \in 1..Len(chain.EvolvesTo) |->
                                   chain.EvolvesTo[i].Name],
              chain.EvolvesTo, 1)

\* the list started empty: evols := []string{}
flatten_NoBase(chain) == appendFirst(<<>>, chain.EvolvesTo, 1)

\* evols := []string{chain.Chain.Species.Name}; the two loops; return evols
flatten(chain) == appendFirst(<<chain.Name>>, chain.EvolvesTo, 1)

\* the zero value of the chain struct: what Decode leaves when it fails
ZeroChain == [Name |-> "", EvolvesTo |-> <<>>]

(***************************************************************************)
(* SpecFlat: flatten applied to every chain of the bounds                  *)
(***************************************************************************)
MaxFirst == 2
MaxSecond == 2
SpeciesNames == {"a", "b"}
SecondStages == {[Name |-> n] : n \in SpeciesNames}
FirstStages ==
  {[Name |-> n, EvolvesTo |-> fs] :
     n \in SpeciesNames, fs \in SeqsUpTo(SecondStages, MaxSecond)}
BoundedChains ==
  {[Name |-> n, EvolvesTo |-> es] :
     n \in SpeciesNames, es \in SeqsUpTo(FirstStages, MaxFirst)}
\* base -> {A, B}, A -> {A1}
TwoBranch ==
  [Name |-> "base",
   EvolvesTo |-> << [Name |-> "A", EvolvesTo |-> << [Name |-> "A1"] >>],
                    [Name |-> "B", EvolvesTo |-> << >>] >>]
\* a species that does not evolve
BaseOnly == [Name |-> "base", EvolvesTo |-> << >>]
Chains == BoundedChains \cup {TwoBranch, BaseOnly}

FlatInit ==
  /\ fchain \in Chains
  /\ fout = <<>>
  /\ fdone = FALSE

FlatIdle ==
  /\ fchain = BaseOnly
  /\ fout = <<>>
  /\ fdone = FALSE

\* lines 206-213 run on the decoded chain
FFlatten ==
  /\ ~fdone
  /\ fout' = flatten(fchain)
  /\ fdone' = TRUE
  /\ UNCHANGED fchain

FlatNext == FFlatten /\ UNCHANGED <<hashVars, mainVars>>

(***************************************************************************)
(* The handler: net/http, html/template and the upstream API               *)
(***************************************************************************)
NumReqs == 2
Reqs == 1..NumReqs

\* the texts of the errors the libraries return
ErrParse == "template: parse error"
ErrRender == "template: execute error"
ErrNet == "dial tcp: i/o timeout"
ErrScheme == "unsupported protocol scheme"
ErrDecode == "invalid character"

\* env(name, def), with v the value of the environment variable
env(v, def) == IF v # "" THEN v ELSE def

\* the process: whether the embedded index.tmpl.html parses, and $VERSION
Builds ==
  { [tmpl |-> "ok", VERSION |-> ""],
    [tmpl |-> "parse error", VERSION |-> "1.2.3"] }

\* the query string: ?name=<value>, or no name parameter
QueryValues ==
  { [present |-> FALSE, value |-> <<>>],
    [present |-> TRUE, value |-> <<>>],
    [present |-> TRUE, value |-> Cafard],
    [present |-> TRUE, value |-> Pikachu] }

\* r.URL.Query().Get("name")
queryGet(q) == IF q.present THEN q.value ELSE <<>>

resolveName_NoDefault(v) == v

\* if name == "" { name = "cafard" }
resolveName(v) == IF v = <<>> THEN Cafard ELSE v

\* pid := pokemonID(name, 151), tabulated over the names a request can carry
indexID == [n \in {resolveName(queryGet(q)) : q \in QueryValues} |-> pokemonID(n, Gen1)]

\* ---- http.ResponseWriter ----
NewResponse == [wroteHeader |-> FALSE, status |-> 0, body |-> <<>>]

\* w.WriteHeader(code): the first call fixes the status, a later one is ignored
WriteHeader(w, code) ==
  IF w.wroteHeader THEN w ELSE [w EXCEPT !.wroteHeader = TRUE, !.status = code]

\* w.Write(data): writes the header with 200 if none was written yet
Write(w, data) ==
  LET w1 == WriteHeader(w, 200)
  IN  [w1 EXCEPT !.body = Append(@, data)]

\* http.Error(w, msg, code)
httpError(w, msg, code) == Write(WriteHeader(w, code), msg)

\* tmpl.Execute(w, params) on the parsed index.tmpl.html: the page's markup is
\* written to w as it is produced; a failure (of an action of the template, or
\* of the connection) comes after the leading markup was written
tmplExecute(w, outcome) ==
  IF outcome = "ok"
  THEN [w |-> Write(w, "page"), err |-> ""]
  ELSE [w |-> Write(w, "page, cut short"), err |-> ErrRender]

\* ---- the upstream API ----
\* what an http.Get returns: err (resp, err := http.Get(..)), and the body: whether
\* it decodes as JSON, and the value a decodable body holds.  http.Get returns no
\* error for a 404 or a 500 answer: its body is then one that does not decode.
\* A field absent from a decodable body is left at its zero value.
ZeroPoke == [Name |-> "", Types |-> <<>>, Stats |-> <<>>, Sprite |-> "", SpeciesURL |-> ""]
Bulbasaur ==
  [Name |-> "bulbasaur",
   Types |-> << [Name |-> "grass"], [Name |-> "poison"] >>,
   Stats |-> << [Name |-> "hp", BaseStat |-> 45], [Name |-> "attack", BaseStat |-> 49],
                [Name |-> "hp", BaseStat |-> 46] >>,
   Sprite |-> "official-artwork/1.png",
   SpeciesURL |-> "pokemon-species/1"]
DetailResponses ==
  { [err |-> ErrNet, decodable |-> FALSE, val |-> ZeroPoke],
    [err |-> "", decodable |-> FALSE, val |-> ZeroPoke],
    [err |-> "", decodable |-> TRUE, val |-> ZeroPoke],
    [err |-> "", decodable |-> TRUE, val |-> Bulbasaur] }

ZeroSpecies == [ChainURL |-> ""]
\* http.Get of an empty URL fails before any request is sent
SpeciesResponses(u) ==
  IF u = ""
  THEN { [err |-> ErrScheme, decodable |-> FALSE, val |-> ZeroSpecies] }
  ELSE { [err |-> ErrNet, decodable |-> FALSE, val |-> ZeroSpecies],
         [err |-> "", decodable |-> FALSE, val |-> ZeroSpecies],
         [err |-> "", decodable |-> TRUE, val |-> [ChainURL |-> "evolution-chain/1"]] }

ChainResponses(u) ==
  IF u = ""
  THEN { [err |-> ErrScheme, decodable |-> FALSE, val |-> ZeroChain] }
  ELSE { [err |-> ErrNet, decodable |-> FALSE, val |-> ZeroChain],
         [err |-> "", decodable |-> FALSE, val |-> ZeroChain],
         [err |-> "", decodable |-> TRUE, val |-> BaseOnly],
         [err |-> "", decodable |-> TRUE, val |-> TwoBranch] }

\* json.NewDecoder(resp.Body).Decode(&v), v holding zero before: the value and
\* the error
decode(resp, zero) ==
  IF resp.decodable THEN [val |-> resp.val, err |-> ""]
  ELSE [val |-> zero, err |-> ErrDecode]

\* ---- fetchPokemon ----
\* for _, s := range poke.Stats { result.Stats[s.Stat.Name] = s.BaseStat }
RECURSIVE putStats(_, _, _)
putStats(m, ss, i) ==
  IF i > Len(ss) THEN m
  ELSE putStats([n \in (DOMAIN m) \cup {ss[i].Name} |->
                   IF n = ss[i].Name THEN ss[i].BaseStat ELSE m[n]], ss, i + 1)

\* for _, t := range poke.Types { result.Types = append(result.Types, t.Type.Name) }
RECURSIVE appendTypes(_, _, _)
appendTypes(types, ts, i) ==
  IF i > Len(ts) THEN types ELSE appendTypes(Append(types, ts[i].Name), ts, i + 1)

\* make(map[string]int)
EmptyMap == [n \in {} |-> 0]
\* var result pokemonData
ZeroData ==
  [Name |-> "", Types |-> <<>>, Stats |-> EmptyMap, Sprite |-> "", Evolutions |-> <<>>]

resultSlot_Shared(r) == 1

\* var result pokemonData is a local: each invocation has its own
resultSlot(r) == r

detailErr_DecodeIgnored(resp) == resp.err

\* the error fetchPokemon returns after the detail request: that of http.Get,
\* else that of Decode, else nil ("")
detailErr(resp) ==
  IF resp.err # "" THEN resp.err ELSE decode(resp, ZeroPoke).err

\* lines 152-160: the record assembled from the decoded detail
assemble(poke) ==
  [Name |-> poke.Name,
   Sprite |-> poke.Sprite,
   Stats |-> putStats(EmptyMap, poke.Stats, 1),
   Types |-> appendTypes(<<>>, poke.Types, 1),
   Evolutions |-> <<>>]

\* ---- fetchEvolutions ----
nilEvolutions_EmptyName == <<"">>

\* return nil
nilEvolutions == <<>>

speciesGetErr_Ignored(resp) == ""

\* resp, err := http.Get(speciesURL); if err != nil
speciesGetErr(resp) == resp.err

\* resp2, err := http.Get(species.EvolutionChain.URL); if err != nil
chainGetErr(resp) == resp.err

\* lines 204-213: Decode's error is dropped, the chain it left is flattened
evolutionsOf(resp) == flatten(decode(resp, ZeroChain).val)

\* ---- index ----
NoQuery == [present |-> FALSE, value |-> <<>>]
NoParams ==
  [Name |-> <<>>, Version |-> "", PokemonID |-> 0, PokemonName |-> "", Types |-> <<>>,
   Stats |-> EmptyMap, Evolutions |-> <<>>, PokemonSprite |-> ""]

MainInitWith(bs) ==
  /\ build \in bs
  /\ pc = [r \in Reqs |-> "idle"]
  /\ query = [r \in Reqs |-> NoQuery]
  /\ name = [r \in Reqs |-> <<>>]
  /\ pid = [r \in Reqs |-> 0]
  /\ calls = [r \in Reqs |-> <<>>]
  /\ resps = [r \in Reqs |-> <<>>]
  /\ result = [r \in Reqs |-> ZeroData]
  /\ url = [r \in Reqs |-> ""]
  /\ fetchErr = [r \in Reqs |-> ""]
  /\ params = [r \in Reqs |-> NoParams]
  /\ rendered = [r \in Reqs |-> "no"]
  /\ rw = [r \in Reqs |-> NewResponse]

MainInit == MainInitWith(Builds)
MainIdle == MainInitWith({[tmpl |-> "ok", VERSION |-> ""]})

\* lines 53-72: the name, the template, the id; then fetchPokemon is entered
index_Begin(r) ==
  /\ pc[r] = "idle"
  /\ \E q \in QueryValues :
       /\ query' = [query EXCEPT ![r] = q]
       /\ name' = [name EXCEPT ![r] = resolveName(queryGet(q))]
  /\ IF build.tmpl # "ok"
     THEN /\ rw' = [rw EXCEPT ![r] = httpError(@, ErrParse, 500)]
          /\ pc' = [pc EXCEPT ![r] = "done"]
          /\ UNCHANGED pid
     ELSE /\ pid' = [pid EXCEPT ![r] = indexID[name'[r]]]
          /\ pc' = [pc EXCEPT ![r] = "detail"]
          /\ UNCHANGED rw
  /\ UNCHANGED <<build, calls, resps, result, url, fetchErr, params, rendered>>
  /\ UNCHANGED <<hashVars, flatVars>>

\* lines 141-160, and lines 74-77 when fetchPokemon returns an error
fetchPokemon_Detail(r) ==
  /\ pc[r] = "detail"
  /\ \E resp \in DetailResponses :
       /\ calls' = [calls EXCEPT ![r] = Append(@, [site |-> "detail", id |-> pid[r], url |-> ""])]
       /\ resps' = [resps EXCEPT ![r] = Append(@, resp)]
       /\ IF detailErr(resp) # ""
          THEN /\ fetchErr' = [fetchErr EXCEPT ![r] = detailErr(resp)]
               /\ rw' = [rw EXCEPT ![r] = httpError(@, detailErr(resp), 500)]
               /\ pc' = [pc EXCEPT ![r] = "done"]
               /\ UNCHANGED <<result, url>>
          ELSE /\ result' = [result EXCEPT ![resultSlot(r)] = assemble(decode(resp, ZeroPoke).val)]
               /\ url' = [url EXCEPT ![r] = decode(resp, ZeroPoke).val.SpeciesURL]
               /\ pc' = [pc EXCEPT ![r] = "species"]
               /\ UNCHANGED <<fetchErr, rw>>
  /\ UNCHANGED <<build, query, name, pid, params, rendered>>
  /\ UNCHANGED <<hashVars, flatVars>>

\* lines 168-179: the species request of fetchEvolutions
fetchEvolutions_Species(r) ==
  /\ pc[r] = "species"
  /\ \E resp \in SpeciesResponses(url[r]) :
       /\ calls' = [calls EXCEPT ![r] = Append(@, [site |-> "species", id |-> 0, url |-> url[r]])]
       /\ resps' = [resps EXCEPT ![r] = Append(@, resp)]
       /\ IF speciesGetErr(resp) # ""
          THEN /\ result' = [result EXCEPT ![resultSlot(r)].Evolutions = nilEvolutions]
               /\ pc' = [pc EXCEPT ![r] = "render"]
               /\ UNCHANGED url
          ELSE /\ url' = [url EXCEPT ![r] = decode(resp, ZeroSpecies).val.ChainURL]
               /\ pc' = [pc EXCEPT ![r] = "chain"]
               /\ UNCHANGED result
  /\ UNCHANGED <<build, query, name, pid, fetchErr, params, rendered, rw>>
  /\ UNCHANGED <<hashVars, flatVars>>

\* lines 181-213, and lines 163-164: the chain request, the flattening, the return
fetchEvolutions_Chain(r) ==
  /\ pc[r] = "chain"
  /\ \E resp \in ChainResponses(url[r]) :
       /\ calls' = [calls EXCEPT ![r] = Append(@, [site |-> "chain", id |-> 0, url |-> url[r]])]
       /\ resps' = [resps EXCEPT ![r] = Append(@, resp)]
       /\ result' = [result EXCEPT ![resultSlot(r)].Evolutions =
                       IF chainGetErr(resp) # "" THEN nilEvolutions ELSE evolutionsOf(resp)]
  /\ pc' = [pc EXCEPT ![r] = "render"]
  /\ UNCHANGED <<build, query, name, pid, url, fetchErr, params, rendered, rw>>
  /\ UNCHANGED <<hashVars, flatVars>>

\* lines 79-94: the page's data, tmpl.Execute, and http.Error when it fails
index_Render(r) ==
  /\ pc[r] = "render"
  /\ params' = [params EXCEPT ![r] =
       [Name |-> name[r],
        Version |-> env(build.VERSION, "cafard-edition"),
        PokemonID |-> pid[r],
        PokemonName |-> result[resultSlot(r)].Name,
        Types |-> result[resultSlot(r)].Types,
        Stats |-> result[resultSlot(r)].Stats,
        Evolutions |-> result[resultSlot(r)].Evolutions,
        PokemonSprite |-> result[resultSlot(r)].Sprite]]
  /\ \E outcome \in {"ok", "error"} :
       LET ex == tmplExecute(rw[r], outcome)
       IN  /\ rendered' = [rendered EXCEPT ![r] = outcome]
           /\ rw' = [rw EXCEPT ![r] = IF ex.err # "" THEN httpError(ex.w, ex.err, 500)
                                      ELSE ex.w]
  /\ pc' = [pc EXCEPT ![r] = "done"]
  /\ UNCHANGED <<build, query, name, pid, calls, resps, result, url, fetchErr>>
  /\ UNCHANGED <<hashVars, flatVars>>

MainNext ==
  \E r \in Reqs :
    \/ index_Begin(r)
    \/ fetchPokemon_Detail(r)
    \/ fetchEvolutions_Species(r)
    \/ fetchEvolutions_Chain(r)
    \/ index_Render(r)

(***************************************************************************)
(* The specifications                                                      *)
(***************************************************************************)
Init == HashIdle /\ FlatIdle /\ MainInit
Next == MainNext
Spec == Init /\ [][Next]_vars

InitHash == HashInit /\ FlatIdle /\ MainIdle
SpecHash == InitHash /\ [][HashNext]_vars

InitFlat == HashIdle /\ FlatInit /\ MainIdle
SpecFlat == InitFlat /\ [][FlatNext]_vars

(***************************************************************************)
(* Properties                                                              *)
(***************************************************************************)
\* the answer to the i-th http.Get of request r
Resp(r, i) == resps[r][i]
DetailOK(r) == Len(resps[r]) >= 1 /\ Resp(r, 1).err = "" /\ Resp(r, 1).decodable
DetailFailed(r) == Len(resps[r]) >= 1 /\ (Resp(r, 1).err # "" \/ ~Resp(r, 1).decodable)
\* fetchPokemon has returned to index
FetchReturned(r) == pc[r] \in {"render", "done"} /\ Len(resps[r]) >= 1
\* fetchPokemon has returned a record and a nil error
FetchedRecord(r) == FetchReturned(r) /\ fetchErr[r] = ""

\* C1: for every name (the empty one included) and every modulus m >= 1,
\* pokemonID(name, m) is in 1..m, and every call with the same arguments
\* returns what the first call returned.
C1_IdInRangeAndStable ==
  \A i \in 1..Len(hres) : hres[i] \in 1..hmod /\ hres[i] = hres[1]

\* the empty name under modulus 151, called twice: SHA-1("") starts da39a3ee5e6b4b0d
C1_Witness == hname = <<>> /\ hmod = Gen1 /\ Len(hres) >= 2 /\ hres[1] = 122 /\ hres[2] = 122

C3_DetailFailureIs500 ==
  \A r \in Reqs :
    DetailFailed(r)
      => /\ pc[r] = "done"
         /\ rw[r].status = 500
         /\ rw[r].body = << IF Resp(r, 1).err # "" THEN Resp(r, 1).err ELSE ErrDecode >>

C3_Witness ==
  \E r \in Reqs :
    /\ Len(resps[r]) = 1 /\ Resp(r, 1).err = "" /\ ~Resp(r, 1).decodable
    /\ rw[r].status = 500 /\ rw[r].body = <<ErrDecode>>

\* C4: a request without a name parameter, or with an empty one, that gets the
\* same upstream answers (and the same rendering outcome) as a request with
\* name=cafard computes the same id, makes the same outbound requests and
\* sends the same response, the page's Name included.
C4_NoNameIsCafard ==
  \A r, s \in Reqs :
    ( /\ pc[r] = "done" /\ pc[s] = "done"
      /\ queryGet(query[r]) = <<>>
      /\ query[s] = [present |-> TRUE, value |-> Cafard]
      /\ resps[r] = resps[s]
      /\ rendered[r] = rendered[s] )
      => /\ pid[r] = pid[s]
         /\ calls[r] = calls[s]
         /\ rw[r] = rw[s]
         /\ params[r] = params[s]

C4_Witness ==
  \E r, s \in Reqs :
    /\ pc[r] = "done" /\ pc[s] = "done"
    /\ ~query[r].present
    /\ query[s] = [present |-> TRUE, value |-> Cafard]
    /\ resps[r] = resps[s] /\ Len(resps[r]) = 3
    /\ rendered[r] = "ok" /\ rendered[s] = "ok"
    /\ params[r].Name = Cafard /\ pid[r] = 97 /\ calls[r][1].id = 97

\* C5: each failure of the handler (the template does not parse, fetchPokemon
\* returns an error, tmpl.Execute returns an error) ends with status 500
\* and a body that is the error's text.
C5_EveryFailureIs500 ==
  \A r \in Reqs :
    pc[r] = "done"
      => /\ build.tmpl # "ok" => (rw[r].status = 500 /\ rw[r].body = <<ErrParse>>)
         /\ fetchErr[r] # "" => (rw[r].status = 500 /\ rw[r].body = <<fetchErr[r]>>)
         /\ rendered[r] = "error" => (rw[r].status = 500 /\ rw[r].body = <<ErrRender>>)

\* the names emitted for the first-stage evolutions 1 .. i - 1 and their children
RECURSIVE EmittedBefore(_, _)
EmittedBefore(es, i) ==
  IF i <= 1 THEN 0
  ELSE EmittedBefore(es, i - 1) + 1 + Len(es[i - 1].EvolvesTo)

\* C6: the flattened list is the base name, then for each first-stage
\* evolution, in input order, its name followed at once by the names of its
\* second-stage evolutions in input order; nothing is dropped, merged or
\* reordered.  A chain without evolutions gives [base]; base -> {A, B},
\* A -> {A1} gives [base, A, A1, B].
C6_FlattenIsPreOrder ==
  fdone =>
    LET es == fchain.EvolvesTo
    IN  /\ Len(fout) = 1 + EmittedBefore(es, Len(es) + 1)
        /\ fout[1] = fchain.Name
        /\ \A i \in 1..Len(es) :
             /\ fout[1 + EmittedBefore(es, i) + 1] = es[i].Name
             /\ \A k \in 1..Len(es[i].EvolvesTo) :
                  fout[1 + EmittedBefore(es, i) + 1 + k] = es[i].EvolvesTo[k].Name
        /\ fchain = BaseOnly => fout = <<"base">>
        /\ fchain = TwoBranch => fout = <<"base", "A", "A1", "B">>

C6_Witness == fdone /\ fchain = TwoBranch /\ fout = <<"base", "A", "A1", "B">>

\* C7: when the evolution-chain data could not be obtained (http.Get returned
\* an error) or could not be parsed (the body does not decode), the
\* evolutions are empty and the request does not fail.
C7_NoChainDataNoEvolutions ==
  \A r \in Reqs :
    ( /\ FetchedRecord(r) /\ Len(resps[r]) = 3
      /\ (Resp(r, 3).err # "" \/ ~Resp(r, 3).decodable) )
      => result[r].Evolutions = <<>> /\ rw[r].status # 500

CallsInOrder(r) ==
  /\ Len(calls[r]) <= 3
  /\ Len(resps[r]) = Len(calls[r])
  /\ \A i \in 1..Len(calls[r]) : calls[r][i].site = <<"detail", "species", "chain">>[i]
  /\ Len(calls[r]) >= 2 => DetailOK(r)
  /\ Len(calls[r]) >= 3 => Resp(r, 2).err = ""

\* C9, as claimed: an invocation of fetchPokemon makes two or three calls, in
\* the order detail, species, chain, the species one after the detail was
\* decoded and the chain one after the species request returned without error.
C9_AsClaimed ==
  \A r \in Reqs :
    /\ CallsInOrder(r)
    /\ FetchReturned(r) => Len(calls[r]) \in {2, 3}

\* C9, amended: an invocation of fetchPokemon makes one, two or three calls:
\* one when the detail request fails, two when the species request returns an
\* error, three otherwise; in the order detail, species, chain, the species one
\* after the detail was decoded and the chain one after the species request
\* returned without error.
C9_OneToThreeCallsInOrder ==
  \A r \in Reqs :
    /\ CallsInOrder(r)
    /\ FetchReturned(r)
         => /\ Len(calls[r]) \in {1, 2, 3}
            /\ Len(calls[r]) = 1 <=> DetailFailed(r)
            /\ Len(calls[r]) = 2 <=> (DetailOK(r) /\ Resp(r, 2).err # "")

\* one request ended after its detail request failed, another after three calls
C9_Witness ==
  \E r, s \in Reqs :
    /\ pc[r] = "done" /\ Len(calls[r]) = 1 /\ fetchErr[r] = ErrNet
    /\ pc[s] = "done" /\ Len(calls[s]) = 3 /\ calls[s][3].url = "evolution-chain/1"

\* what request r holds
ReqState(r) ==
  <<pc[r], query[r], name[r], pid[r], calls[r], resps[r], result[r], url[r],
    fetchErr[r], params[r], rendered[r], rw[r]>>

\* a step changes what one request holds, and nothing of the others
IsolatedStep == \E r \in Reqs : \A s \in Reqs \ {r} : ReqState(s)' = ReqState(s)

\* what a request sends is a function of its own name and own answers
OwnInputsDecide ==
  /\ \A r \in Reqs :
       pc[r] = "done" /\ rendered[r] # "no"
         => /\ params[r].Name = resolveName(queryGet(query[r]))
            /\ params[r].PokemonID = indexID[params[r].Name]
            /\ calls[r][1].id = params[r].PokemonID
            /\ params[r].PokemonName = Resp(r, 1).val.Name
            /\ params[r].PokemonSprite = Resp(r, 1).val.Sprite
            /\ Len(params[r].Types) = Len(Resp(r, 1).val.Types)
  /\ \A r, s \in Reqs :
       ( /\ pc[r] = "done" /\ pc[s] = "done"
         /\ query[r] = query[s] /\ resps[r] = resps[s] /\ rendered[r] = rendered[s] )
         => /\ pid[r] = pid[s] /\ calls[r] = calls[s]
            /\ rw[r] = rw[s] /\ params[r] = params[s]

\* C10: under every interleaving of the requests, a step of one request's flow
\* leaves what the other requests hold unchanged, and a request's response
\* (status, id, the page's data) is decided by its own name parameter and the
\* answers to its own outbound calls.
C10_RequestsAreIsolated == [][IsolatedStep]_vars /\ []OwnInputsDecide

\* two flows in flight at once, holding different records
C10_Witness ==
  /\ pc[1] = "chain" /\ pc[2] = "species"
  /\ result[1].Name = "bulbasaur" /\ result[2].Name = ""
  /\ name[1] # name[2]
====
